---- MODULE Spec2Model ----
(***************************************************************************)
(* Model of include/gdf-arrow/errorutils.h: the three early-return guards  *)
(* CUDA_TRY, CUDA_CHECK_LAST and GDF_ARROW_REQUIRE, executed as the        *)
(* statements of a function body.                                          *)
(*                                                                         *)
(* A function body is a sequence of guard statements.  The state is the    *)
(* position in the body, whether the function has returned and with what   *)
(* status, the GPU runtime's last-error slot, and how often each operand   *)
(* of each guard has been evaluated (the operands may have side effects).  *)
(***************************************************************************)
EXTENDS Naturals, Sequences, FiniteSets

\* ------------------------------------------------------------------ bounds

\* Longest function body (number of guard statements).
MaxLen == 2

\* Number of callers above the first function that resume after a return.
MaxDepth == 1

\* ------------------------------------------------------------------ values

cudaSuccess == "cudaSuccess"

\* The values a GPU runtime call may produce: success and two distinct errors.
CudaStatus == {cudaSuccess, "cudaErrorA", "cudaErrorB"}

GDF_ARROW_CUDA_ERROR == "GDF_ARROW_CUDA_ERROR"

\* The statuses a caller may hand to GDF_ARROW_REQUIRE as S.
Status == {GDF_ARROW_CUDA_ERROR, "STATUS_A", "STATUS_B"}

\* A guard statement: its macro, and the values its operands evaluate to.
\* Fields a macro does not take are held at a fixed default.
Stmts ==
    {[kind |-> "CUDA_TRY", x |-> v, F |-> TRUE, S |-> GDF_ARROW_CUDA_ERROR] :
        v \in CudaStatus}
    \cup {[kind |-> "CUDA_CHECK_LAST", x |-> cudaSuccess, F |-> TRUE,
           S |-> GDF_ARROW_CUDA_ERROR]}
    \cup {[kind |-> "GDF_ARROW_REQUIRE", x |-> cudaSuccess, F |-> f, S |-> s] :
        f \in BOOLEAN, s \in Status}

Bodies == UNION {[1..n -> Stmts] : n \in 0..MaxLen}

Slots == 1..MaxLen

NoCount == [i \in Slots |-> 0]

NoPeek == [i \in Slots |-> "unevaluated"]

VARIABLES
    body,       \* the guards of the function being executed
    pc,         \* index of the guard to execute next; the returning guard once returned
    returned,   \* the function has executed a return statement of a guard
    retval,     \* the status it returned ("none" before)
    lastError,  \* the GPU runtime's last-error slot
    nX,         \* nX[i]: evaluations of the operand of the CUDA guard i
    nF,         \* nF[i]: evaluations of F of the GDF_ARROW_REQUIRE i
    nS,         \* nS[i]: evaluations of S of the GDF_ARROW_REQUIRE i
    peeked,     \* peeked[i]: what cudaPeekAtLastError() gave CUDA_CHECK_LAST i
    lastCheck,  \* outcome of the latest CUDA_CHECK_LAST since a GPU runtime call
    checkRun,   \* CUDA_CHECK_LAST executions since the latest GPU runtime call
    depth       \* how many callers have resumed so far

vars == <<body, pc, returned, retval, lastError, nX, nF, nS, peeked,
          lastCheck, checkRun, depth>>

\* --------------------------------------------------------- the macros

\* The status is recorded but the function goes on to the next statement.
RecordAndGoOn(s) ==
    /\ retval' = s
    /\ pc' = pc + 1
    /\ UNCHANGED returned

\* `return <status>;` inside a guard: the enclosing function ends here.
Return(s) ==
    /\ returned' = TRUE
    /\ retval' = s
    /\ pc' = pc

\* The guard's `if` is false: control passes to the next statement.
Continue ==
    /\ pc' = pc + 1
    /\ UNCHANGED <<returned, retval>>

\* The operand text appears twice in the expansion.
EvalOperandTwice(n) == n + 2

\* One evaluation of a macro operand: it appears once in the expansion.
EvalOperand(n) == n + 1

\* The guard returns whether or not the call succeeded.
CUDA_TRY_cond_always(x) == TRUE

\* CUDA_TRY's condition inverted.
CUDA_TRY_cond_inverted(x) == x = cudaSuccess

\* ((x)!=cudaSuccess)
CUDA_TRY_cond(x) == x # cudaSuccess

\* The wrapped call's own status is passed on.
CUDA_TRY_status_passthrough(x) == x

\* return GDF_ARROW_CUDA_ERROR, whatever x was.
CUDA_TRY_status(x) == GDF_ARROW_CUDA_ERROR

\* #define CUDA_TRY(x) if ((x)!=cudaSuccess) return GDF_ARROW_CUDA_ERROR;
CUDA_TRY(x) ==
    IF CUDA_TRY_cond(x) THEN Return(CUDA_TRY_status(x)) ELSE Continue

\* GDF_ARROW_REQUIRE's negation dropped.
GDF_ARROW_REQUIRE_cond_unnegated(F) == F

\* (!(F))
GDF_ARROW_REQUIRE_cond(F) == ~F

\* #define GDF_ARROW_REQUIRE(F, S) if (!(F)) return (S);
\* S is evaluated by the return statement only.
GDF_ARROW_REQUIRE(F, S) ==
    IF GDF_ARROW_REQUIRE_cond(F)
    THEN Return(S) /\ nS' = [nS EXCEPT ![pc] = EvalOperand(@)]
    ELSE Continue /\ UNCHANGED nS

\* Reading the last error also clears it (as cudaGetLastError does).
LastErrorCleared(e) == cudaSuccess

\* cudaPeekAtLastError() leaves the runtime's last-error slot as it is.
LastErrorAfterPeek(e) == e

\* The peek reports success whatever is pending.
PeekSuccess == cudaSuccess

\* cudaPeekAtLastError(): the value of the runtime's last-error slot.
cudaPeekAtLastError == lastError

\* ------------------------------------------------------------ the steps

Running == ~returned /\ pc \in 1..Len(body)

\* A CUDA_TRY statement: the wrapped GPU runtime call is performed (it yields
\* body[pc].x and may leave any value in the last-error slot), then the guard.
TryStep ==
    /\ Running
    /\ body[pc].kind = "CUDA_TRY"
    /\ nX' = [nX EXCEPT ![pc] = EvalOperand(@)]
    /\ \E e \in CudaStatus : lastError' = e
    /\ CUDA_TRY(body[pc].x)
    /\ lastCheck' = "none"
    /\ checkRun' = 0
    /\ UNCHANGED <<body, nF, nS, peeked, depth>>

\* #define CUDA_CHECK_LAST() CUDA_TRY(cudaPeekAtLastError())
CUDA_CHECK_LAST ==
    /\ Running
    /\ body[pc].kind = "CUDA_CHECK_LAST"
    /\ nX' = [nX EXCEPT ![pc] = EvalOperand(@)]
    /\ peeked' = [peeked EXCEPT ![pc] = cudaPeekAtLastError]
    /\ lastError' = LastErrorAfterPeek(lastError)
    /\ CUDA_TRY(cudaPeekAtLastError)
    /\ lastCheck' = IF returned' THEN "failed" ELSE "passed"
    /\ checkRun' = checkRun + 1
    /\ UNCHANGED <<body, nF, nS, depth>>

\* A GDF_ARROW_REQUIRE statement: F is evaluated by the `if`, then the guard.
RequireStep ==
    /\ Running
    /\ body[pc].kind = "GDF_ARROW_REQUIRE"
    /\ nF' = [nF EXCEPT ![pc] = EvalOperand(@)]
    /\ GDF_ARROW_REQUIRE(body[pc].F, body[pc].S)
    /\ UNCHANGED <<body, lastError, nX, peeked, lastCheck, checkRun, depth>>

\* The function is over (a guard returned, or the body ran to its end) and
\* its caller goes on with guards of its own.  The runtime's state is kept.
Resume ==
    /\ returned \/ pc = Len(body) + 1
    /\ depth < MaxDepth
    /\ depth' = depth + 1
    /\ body' \in Bodies
    /\ pc' = 1
    /\ returned' = FALSE
    /\ retval' = "none"
    /\ nX' = NoCount
    /\ nF' = NoCount
    /\ nS' = NoCount
    /\ peeked' = NoPeek
    /\ UNCHANGED <<lastError, lastCheck, checkRun>>

Init ==
    /\ body \in Bodies
    /\ pc = 1
    /\ returned = FALSE
    /\ retval = "none"
    /\ lastError \in CudaStatus
    /\ nX = NoCount
    /\ nF = NoCount
    /\ nS = NoCount
    /\ peeked = NoPeek
    /\ lastCheck = "none"
    /\ checkRun = 0
    /\ depth = 0

Next ==
    \/ TryStep
    \/ CUDA_CHECK_LAST
    \/ RequireStep
    \/ Resume

Spec == Init /\ [][Next]_vars

\* ----------------------------------------------------- reading a state

Guards == 1..Len(body)

IsCuda(i) == body[i].kind \in {"CUDA_TRY", "CUDA_CHECK_LAST"}

\* Guard i has evaluated its first operand.
Executed(i) == IF IsCuda(i) THEN nX[i] > 0 ELSE nF[i] > 0

\* Nothing of guard i has been evaluated.
NotRun(i) == nX[i] = 0 /\ nF[i] = 0 /\ nS[i] = 0 /\ peeked[i] = "unevaluated"

\* Control has been at guard i and left it (onwards, or out of the function).
Passed(i) == i < pc \/ (returned /\ i = pc)

ReturnedAt(i) == returned /\ pc = i

\* The failure condition of guard i, from the values its operands had.
Failing(i) ==
    CASE body[i].kind = "CUDA_TRY" -> body[i].x # cudaSuccess
      [] body[i].kind = "CUDA_CHECK_LAST" -> peeked[i] # cudaSuccess
      [] OTHER -> ~body[i].F

\* The status guard i is documented to return on failure.
StatusOf(i) == IF IsCuda(i) THEN GDF_ARROW_CUDA_ERROR ELSE body[i].S

\* ------------------------------------------------------------- the claims

\* C1: a CUDA_TRY whose wrapped call gave anything but cudaSuccess makes the
\* function return at that guard with GDF_ARROW_CUDA_ERROR, and no statement
\* after the guard is executed.
C1_TryFailureReturns ==
    \A i \in Guards :
        (body[i].kind = "CUDA_TRY" /\ nX[i] > 0 /\ body[i].x # cudaSuccess)
            => /\ ReturnedAt(i)
               /\ retval = GDF_ARROW_CUDA_ERROR
               /\ \A j \in Guards : j > i => NotRun(j)

C1_Witness ==
    /\ Len(body) = 2
    /\ body[1].kind = "CUDA_TRY"
    /\ body[1].x = "cudaErrorA"
    /\ nX[1] = 1
    /\ ReturnedAt(1)

\* C2: a CUDA_TRY whose wrapped call gave cudaSuccess does not return: control
\* passes to the next statement, and the guard changes neither the return
\* value nor any other state (the operand's own evaluation apart).
C2_TrySuccessContinues ==
    [][(Running /\ body[pc].kind = "CUDA_TRY" /\ body[pc].x = cudaSuccess)
          => /\ pc' = pc + 1
             /\ returned' = FALSE
             /\ retval' = retval
             /\ UNCHANGED <<body, nF, nS, peeked, depth>>]_vars

C2_Witness ==
    /\ Len(body) = 2
    /\ body[1].kind = "CUDA_TRY"
    /\ body[1].x = cudaSuccess
    /\ nX[1] = 1
    /\ pc = 2
    /\ ~returned

\* C3: GDF_ARROW_REQUIRE(F, S) makes the function return S at the guard
\* exactly when F is false; when F is true nothing is returned and control is
\* at the following statement.
C3_RequireReturnsIffFalse ==
    \A i \in Guards :
        (body[i].kind = "GDF_ARROW_REQUIRE" /\ nF[i] > 0)
            => /\ ReturnedAt(i) <=> ~body[i].F
               /\ ~body[i].F => retval = body[i].S
               /\ body[i].F => pc > i

C3_Witness ==
    /\ Len(body) = 2
    /\ body[1].kind = "GDF_ARROW_REQUIRE" /\ body[1].F /\ nF[1] = 1
    /\ body[2].kind = "GDF_ARROW_REQUIRE" /\ ~body[2].F /\ nF[2] = 1
    /\ body[2].S = "STATUS_B"
    /\ ReturnedAt(2)
    /\ retval = "STATUS_B"

\* C4: CUDA_CHECK_LAST makes the function return GDF_ARROW_CUDA_ERROR exactly
\* when the runtime's last recorded error is not cudaSuccess, and otherwise
\* goes on with the following statement.
C4_CheckLastGuardsLastError ==
    [][(Running /\ body[pc].kind = "CUDA_CHECK_LAST")
          => IF lastError # cudaSuccess
             THEN returned' /\ retval' = GDF_ARROW_CUDA_ERROR /\ pc' = pc
             ELSE ~returned' /\ retval' = retval /\ pc' = pc + 1]_vars

C4_Witness ==
    /\ Len(body) = 2
    /\ body[1].kind = "CUDA_TRY" /\ body[1].x = cudaSuccess
    /\ body[2].kind = "CUDA_CHECK_LAST" /\ peeked[2] = "cudaErrorA"
    /\ lastError = "cudaErrorA"
    /\ ReturnedAt(2)
    /\ retval = GDF_ARROW_CUDA_ERROR

\* C5: in a body of guards the function returns at the first guard whose
\* failure condition holds, with that guard's status; no later guard or
\* operand is evaluated, nothing is evaluated a second time, and the end of
\* the body is reached only when no guard failed.
C5_FirstFailureReturns ==
    /\ \A i \in Guards :
          /\ (Executed(i) /\ Failing(i)) => (ReturnedAt(i) /\ retval = StatusOf(i))
          /\ nX[i] <= 1 /\ nF[i] <= 1 /\ nS[i] <= 1
    /\ returned =>
          /\ pc \in Guards
          /\ Executed(pc) /\ Failing(pc)
          /\ \A j \in Guards : j < pc => (Executed(j) /\ ~Failing(j))
          /\ \A j \in Guards : j > pc => NotRun(j)
    /\ ~returned =>
          /\ pc \in 1..(Len(body) + 1)
          /\ \A j \in Guards : j < pc => (Executed(j) /\ ~Failing(j))
          /\ \A j \in Guards : j >= pc => NotRun(j)

C5_Witness ==
    /\ Len(body) = 2
    /\ body[1].kind = "GDF_ARROW_REQUIRE" /\ ~body[1].F /\ body[1].S = "STATUS_A"
    /\ body[2].kind = "CUDA_TRY" /\ body[2].x = "cudaErrorB"
    /\ ReturnedAt(1)
    /\ retval = "STATUS_A"
    /\ NotRun(2)

\* C6: an early return at a CUDA_TRY or CUDA_CHECK_LAST carries
\* GDF_ARROW_CUDA_ERROR whichever failing value the call produced, an early
\* return at a GDF_ARROW_REQUIRE carries its S, and nothing else is returned.
C6_TwoKindsOfStatus ==
    IF returned
    THEN /\ pc \in Guards
         /\ IsCuda(pc) => retval = GDF_ARROW_CUDA_ERROR
         /\ ~IsCuda(pc) => retval = body[pc].S
    ELSE retval = "none"

C6_Witness ==
    /\ Len(body) = 2
    /\ body[1].kind = "GDF_ARROW_REQUIRE" /\ body[1].F
    /\ body[2].kind = "CUDA_TRY" /\ body[2].x = "cudaErrorB"
    /\ ReturnedAt(2)
    /\ retval = GDF_ARROW_CUDA_ERROR

\* C7: a guard that has been executed evaluated its operand exactly once
\* (the wrapped call of CUDA_TRY, the peek of CUDA_CHECK_LAST, F of
\* GDF_ARROW_REQUIRE), and S was evaluated once if F was false and not at all
\* if F was true.
C7_OperandsEvaluatedOnce ==
    \A i \in Guards :
        IF Passed(i)
        THEN IF IsCuda(i)
             THEN nX[i] = 1 /\ nF[i] = 0 /\ nS[i] = 0
             ELSE /\ nX[i] = 0
                  /\ nF[i] = 1
                  /\ nS[i] = IF body[i].F THEN 0 ELSE 1
        ELSE NotRun(i)

C7_Witness ==
    /\ Len(body) = 2
    /\ body[1].kind = "GDF_ARROW_REQUIRE" /\ body[1].F
    /\ nF[1] = 1 /\ nS[1] = 0
    /\ body[2].kind = "GDF_ARROW_REQUIRE" /\ ~body[2].F
    /\ nF[2] = 1 /\ nS[2] = 1
    /\ ReturnedAt(2)

====
